---- MODULE Spec2Model ----
(***************************************************************************)
(* State-machine model of pennylane/devices/qubit/simulate.py:             *)
(* get_final_state, measure_final_state, simulate, simulate_native_mcm and *)
(* gather_native_mid_circuit_measurements.                                 *)
(*                                                                         *)
(* The quantum state is abstracted to the set of computational basis       *)
(* states carrying a non-zero amplitude (its support), the norm left by a  *)
(* projector, a NaN flag and the number of wire axes.  Random draws that   *)
(* the code takes from numpy's global generator are nondeterministic       *)
(* choices; draws taken from the generator seeded with `rng` are a         *)
(* function of the seed.                                                   *)
(***************************************************************************)
EXTENDS Integers, Sequences, FiniteSets, TLC

VARIABLES
    circuit,            \* the QuantumScript object the caller passes in
    rng,                \* the seed passed as `rng`
    pc,                 \* position in the running function
    caller,             \* who called get_final_state: "top", "simulate", "native"
                        \* (a trial of simulate), "native_top" (simulate_native_mcm
                        \* called directly)
    local,              \* get_final_state/measure_final_state's `circuit` after map_to_standard_wires
    i,                  \* index of the next operation of the loop at line 137
    state,              \* the state tensor (abstracted)
    is_state_batched,   \* the batching flag
    measurement_values, \* dict: MidMeasureMP hash -> realized outcome
    log,                \* history: one entry per iteration of the loop at line 137
    tmpcirc,            \* simulate's working copy in repeated-trial mode
    analytic_meas,      \* simulate's accumulator
    mcm_meas,           \* simulate's list of per-trial outcome dictionaries
    trials,             \* history: what each simulate_native_mcm call returned
    calls,              \* history: number of get_final_state / measure_final_state calls
    result,             \* value returned by the top-level call
    err,                \* exception raised by the top-level call ("none" if none)
    state_cache,        \* the dict passed as `state_cache`, or None
    given,              \* history: the circuit as it was when the call started
    first,              \* outcome of an earlier simulate call with the same circuit and seed
    H,                  \* a LinearCombination object: its constructor arguments and fields
    tapes,              \* what split_non_commuting returned for a tape measuring H
    noise_model,        \* a NoiseModel object
    noise_result        \* the last operator call on noise_model and what it gave

vars == <<circuit, rng, pc, caller, local, i, state, is_state_batched,
          measurement_values, log, tmpcirc, analytic_meas, mcm_meas,
          trials, calls, result, err, state_cache, given, first, H, tapes,
          noise_model, noise_result>>

\* the variables of the NoiseModel
NoiseVars == <<noise_model, noise_result>>

\* the variables simulate never touches: the LinearCombination, its consumer and the
\* NoiseModel
SumVars == <<H, tapes, noise_model, noise_result>>

----------------------------------------------------------------------------
(* Bounds of the model. *)

\* longest operation list of a circuit given to get_final_state directly
MaxOps == 3
\* longest operation list of a circuit given to simulate
MaxSimOps == 2
\* longest measurement list of a circuit given to simulate
MaxMeas == 2
\* largest shot count of one partition
MaxShots == 2
\* largest seed
MaxSeed == 1
\* longest measurement list of a circuit simulated twice
MaxMeasTwice == 1
\* longest measurement list of a circuit simulated with a state cache
MaxMeasCache == 1
\* longest term list of a LinearCombination
MaxTerms == 3
\* most calls made on a LinearCombination after its construction
MaxSumCalls == 2
\* most entries of the model data of a NoiseModel and of an operand
MaxModelEntries == 2

----------------------------------------------------------------------------
(* Python values. *)

NoneV == [t |-> "None"]
Num(n, d) == [t |-> "num", n |-> n, d |-> d]
Arr(s) == [t |-> "arr", v |-> s]
Tup(s) == [t |-> "tuple", v |-> s]
Lst(s) == [t |-> "list", v |-> s]

\* dict with no key
EmptyDict == [k \in {} |-> 0]

\* d[k] = v on a dict
DictSet(d, k, v) == [x \in (DOMAIN d) \cup {k} |-> IF x = k THEN v ELSE d[x]]

----------------------------------------------------------------------------
(* Operations. *)

Gate(name, w, batch) == [k |-> name, w |-> w, batch |-> batch]
RX(w) == Gate("RX", w, FALSE)
RXBatched(w) == Gate("RX", w, TRUE)
PauliX(w) == Gate("PauliX", w, FALSE)
Projector(w, v) == [k |-> "Projector", w |-> w, v |-> v, batch |-> FALSE]
MidMeasureMP(w, id) == [k |-> "MidMeasureMP", w |-> w, hash |-> id, batch |-> FALSE]
\* a state preparation on wire 0
StatePrep(batch) == [k |-> "StatePrep", w |-> 0, batch |-> batch]

\* a MeasurementValue: the measurements it references and how it combines them
MeasurementValue(ids, fn) == [measurements |-> ids, fn |-> fn]
Conditional(mv, op) == [k |-> "Conditional", meas_val |-> mv, then_op |-> op, batch |-> op.batch]

\* value of a MeasurementValue expression on a dict of outcomes holding all its keys
Eval(mv, d) ==
    CASE mv.fn = "id" -> d[mv.measurements[1]]
      [] mv.fn = "not" -> 1 - d[mv.measurements[1]]
      [] mv.fn = "sum_eq_2" ->
            IF d[mv.measurements[1]] + d[mv.measurements[2]] = 2 THEN 1 ELSE 0

\* the keys a MeasurementValue needs
Keys(mv) == {mv.measurements[j] : j \in 1..Len(mv.measurements)}

MV_m0 == MeasurementValue(<<0>>, "id")
MV_not_m0 == MeasurementValue(<<0>>, "not")
MV_m0_m1 == MeasurementValue(<<0, 1>>, "sum_eq_2")

OpCatalogue ==
    { RX(0), RXBatched(1), MidMeasureMP(0, 0), MidMeasureMP(1, 1), Projector(0, 1),
      Conditional(MV_m0, PauliX(1)), Conditional(MV_not_m0, PauliX(1)),
      Conditional(MV_m0_m1, PauliX(1)), Conditional(MV_m0, RXBatched(1)) }

RECURSIVE SeqsUpTo(_, _)
SeqsUpTo(S, n) ==
    IF n = 0 THEN {<<>>}
    ELSE LET shorter == SeqsUpTo(S, n - 1)
         IN  shorter \cup {Append(s, x) : s \in {t \in shorter : Len(t) = n - 1}, x \in S}

\* shots: <<>> is Shots(None), <<s>> one count, <<s1, s2>> a shot vector
ShotsChoices == {<<>>} \cup {<<s>> : s \in 1..MaxShots} \cup {<<1, s>> : s \in 1..MaxShots}

RECURSIVE SumSeq(_)
SumSeq(s) == IF s = <<>> THEN 0 ELSE Head(s) + SumSeq(Tail(s))

total_shots(shots) == IF shots = <<>> THEN NoneV ELSE Num(SumSeq(shots), 1)
has_partitioned_shots(shots) == Len(shots) > 1

----------------------------------------------------------------------------
(* The state tensor and apply_operation. *)

Bit(b, w) == (b \div (IF w = 0 THEN 1 ELSE 2)) % 2
WithBit(b, w, v) == b + (v - Bit(b, w)) * (IF w = 0 THEN 1 ELSE 2)

OpWires(ops) == {ops[j].w : j \in {x \in 1..Len(ops) : ops[x].k # "Conditional"}}
                \cup {ops[j].then_op.w : j \in {x \in 1..Len(ops) : ops[x].k = "Conditional"}}

\* create_initial_state: |0..0> over the operated wires, or the prepared state (a
\* superposition on the preparation's wire)
create_initial_state(wires, prep) ==
    [supp |-> IF prep THEN {0, 1} ELSE {0}, norm |-> "one", nan |-> FALSE,
     axes |-> Cardinality(wires)]

\* the state a non-measuring operation leaves
ApplyGate(op, st) ==
    CASE op.k = "RX" ->
            [st EXCEPT !.supp = {WithBit(b, op.w, v) : b \in st.supp, v \in {0, 1}}]
      [] op.k = "PauliX" ->
            [st EXCEPT !.supp = {WithBit(b, op.w, 1 - Bit(b, op.w)) : b \in st.supp}]
      [] op.k = "Projector" ->
            LET kept == {b \in st.supp : Bit(b, op.w) = op.v}
            IN  [st EXCEPT !.supp = kept,
                           !.norm = IF st.nan THEN "nan"
                                    ELSE IF kept = {} THEN "zero"
                                    ELSE IF kept = st.supp THEN "one" ELSE "part"]

\* outcomes apply_mid_measure can sample on a state: the values the wire takes in the
\* support; the zero state gives 0
Outcomes(op, st) == IF st.supp = {} THEN {0} ELSE {Bit(b, op.w) : b \in st.supp}

\* the state left by sampling outcome v
Collapse(op, st, v) == [st EXCEPT !.supp = {b \in st.supp : Bit(b, op.w) = v}]

----------------------------------------------------------------------------
(* _postselection_postprocess *)

\* values np.random.binomial(s, norm**2) can return
Binomial(s, norm) ==
    CASE norm = "zero" -> {0}
      [] norm = "one" -> {s}
      [] OTHER -> 0..s

\* a re-derivation that draws once, from the total of the partitions
PostselectedTotal(shots, norm) == {<<n>> : n \in 0..SumSeq(shots)}

\* the shot specifications the draws at line 97 can produce, one draw per partition
PostselectedShots(shots, norm) ==
    {p \in [1..Len(shots) -> 0..MaxShots] : \A j \in 1..Len(shots) : p[j] \in Binomial(shots[j], norm)}

\* a division that is skipped when the norm is zero
RenormalizeUnlessZero(st) == [st EXCEPT !.norm = "one", !.nan = (st.norm = "nan")]

\* state / norm: a zero norm leaves a NaN-bearing state
Renormalize(st) ==
    IF st.norm \in {"zero", "nan"} THEN [st EXCEPT !.nan = TRUE, !.norm = "one"]
    ELSE [st EXCEPT !.norm = "one"]

\* a postprocess that never refuses a batched state
PostselectNeverRaises(batched) == FALSE

\* the check at line 76
PostselectRaises(batched) == batched

\* `if shots:` at line 93
ShotsTruthy(shots) == shots # <<>>

----------------------------------------------------------------------------
(* Circuits. *)

\* measurement of an observable on wire w
Mp(kind, w) == [kind |-> kind, wires |-> {w}, has_mv |-> FALSE]
\* measurement of a mid-circuit measurement value
MpMV(kind, mv) == [kind |-> kind, wires |-> {}, has_mv |-> TRUE, mv |-> mv]

QuantumScript(ops, measurements, shots, std) ==
    [ops |-> ops, measurements |-> measurements, shots |-> shots, std |-> std]

\* circuit.wires: the wires of the operations and of the measurements
Wires(c) == OpWires(c.ops) \cup UNION {c.measurements[j].wires : j \in 1..Len(c.measurements)}

\* circuits whose first operation may be a state preparation
WithPrep(bodies) ==
    bodies \cup {<<StatePrep(b)>> \o s : b \in BOOLEAN, s \in {t \in bodies : Len(t) < MaxOps}}

\* the object handed to the running get_final_state / measure_final_state
Passed == IF caller = "native" THEN tmpcirc ELSE circuit

\* the circuit simulate_native_mcm is given: simulate's working copy, or the
\* caller's circuit when it is called directly
NativeInput == IF tmpcirc # NoneV THEN tmpcirc ELSE circuit

\* circuit.map_to_standard_wires(): the object itself when its wires are standard,
\* a new object otherwise
map_to_standard_wires(c) == [alias |-> c.std, c |-> c]

\* circuit._shots = shots on get_final_state's circuit; the object passed in is
\* the one written when map_to_standard_wires returned it
SetShots(shots) ==
    /\ local' = [local EXCEPT !.c.shots = shots]
    /\ IF local.alias /\ caller = "native"
          THEN tmpcirc' = [tmpcirc EXCEPT !.shots = shots] /\ UNCHANGED circuit
       ELSE IF local.alias
          THEN circuit' = [circuit EXCEPT !.shots = shots] /\ UNCHANGED tmpcirc
       ELSE UNCHANGED <<circuit, tmpcirc>>

----------------------------------------------------------------------------
(* get_final_state *)

HasPrep(c) == Len(c.ops) > 0 /\ c.ops[1].k = "StatePrep"

\* the hash the guard of a Conditional is looked up by (line 139)
GuardKey(op) == op.meas_val.measurements[1]

\* the test at line 142, on a dict holding GuardKey(op)
GuardHolds(op, d) == d[GuardKey(op)] # 0

InLoop == pc = "loop" /\ i <= Len(local.c.ops)
CurOp == local.c.ops[i]

\* a Conditional whose guard key is present and truthy is replaced by its then_op
Reached ==
    /\ InLoop
    /\ CurOp.k = "Conditional" =>
          GuardKey(CurOp) \in DOMAIN measurement_values /\ GuardHolds(CurOp, measurement_values)
EffOp == IF CurOp.k = "Conditional" THEN CurOp.then_op ELSE CurOp

\* a flag that forgets the batch dimension an operation adds
BatchedKeepsFlag(flag, op) == flag

\* a flag that forgets what it was before the operation
BatchedOnlyOp(flag, op) == op.batch

\* line 155: the flag after an applied operation
BatchedAfter(flag, op) == flag \/ op.batch

Raise(e) == pc' = "raised" /\ err' = e

\* the history entry of the running iteration: the operation, what became of it,
\* and the dict, flag, state and shots it started from
Entry(did) ==
    [op |-> CurOp, did |-> did, dict |-> measurement_values, batched |-> is_state_batched,
     state |-> state, shots |-> local.c.shots]
Logged(did) == log' = Append(log, Entry(did))

\* the variables get_final_state never writes
SimLocals == <<rng, caller, tmpcirc, analytic_meas, mcm_meas, trials, result,
               state_cache, given, first>>

\* lines 126-136
GetFinalStateEnter ==
    /\ pc = "get_final_state"
    /\ local' = map_to_standard_wires(Passed)
    /\ state' = create_initial_state(OpWires(Passed.ops), HasPrep(Passed))
    /\ is_state_batched' = (HasPrep(Passed) /\ Passed.ops[1].batch)
    /\ measurement_values' = EmptyDict
    /\ i' = IF HasPrep(Passed) THEN 2 ELSE 1
    /\ log' = <<>>
    /\ calls' = [calls EXCEPT !.get_final_state = @ + 1]
    /\ pc' = "loop"
    /\ UNCHANGED <<circuit, rng, caller, tmpcirc, analytic_meas, mcm_meas,
                   trials, result, err, state_cache, given, first>>
    /\ UNCHANGED SumVars

\* lines 138-141: the guard's key is not in the dict
ConditionalKeyError ==
    /\ InLoop /\ CurOp.k = "Conditional"
    /\ GuardKey(CurOp) \notin DOMAIN measurement_values
    /\ Raise("KeyError")
    /\ Logged("raised")
    /\ UNCHANGED <<circuit, local, i, state, is_state_batched, measurement_values, calls>>
    /\ UNCHANGED SimLocals
    /\ UNCHANGED SumVars

\* lines 138-143: the guard is falsy, continue
ConditionalSkip ==
    /\ InLoop /\ CurOp.k = "Conditional"
    /\ GuardKey(CurOp) \in DOMAIN measurement_values
    /\ ~GuardHolds(CurOp, measurement_values)
    /\ i' = i + 1
    /\ Logged("skipped")
    /\ UNCHANGED <<circuit, pc, local, state, is_state_batched, measurement_values,
                   calls, err>>
    /\ UNCHANGED SimLocals
    /\ UNCHANGED SumVars

\* lines 145, 155: an operation that is neither a measurement nor a projector
ApplyUnitary ==
    /\ Reached /\ EffOp.k \in {"RX", "PauliX"}
    /\ state' = ApplyGate(EffOp, state)
    /\ Logged("applied")
    /\ is_state_batched' = BatchedAfter(is_state_batched, EffOp)
    /\ i' = i + 1
    /\ UNCHANGED <<circuit, pc, local, measurement_values, calls, err>>
    /\ UNCHANGED SimLocals
    /\ UNCHANGED SumVars

\* lines 145-147, 155: a mid-circuit measurement on an unbatched state
ApplyMidMeasure ==
    /\ Reached /\ EffOp.k = "MidMeasureMP" /\ ~is_state_batched
    /\ \E v \in Outcomes(EffOp, state) :
          /\ state' = Collapse(EffOp, state, v)
          /\ measurement_values' = DictSet(measurement_values, EffOp.hash, v)
    /\ Logged("applied")
    /\ is_state_batched' = BatchedAfter(is_state_batched, EffOp)
    /\ i' = i + 1
    /\ UNCHANGED <<circuit, pc, local, calls, err>>
    /\ UNCHANGED SimLocals
    /\ UNCHANGED SumVars

\* line 145: apply_mid_measure refuses a batched state
ApplyMidMeasureBatched ==
    /\ Reached /\ EffOp.k = "MidMeasureMP" /\ is_state_batched
    /\ Raise("ValueError: MidMeasureMP cannot be applied to batched states")
    /\ Logged("raised")
    /\ UNCHANGED <<circuit, local, i, state, is_state_batched, measurement_values, calls>>
    /\ UNCHANGED SimLocals
    /\ UNCHANGED SumVars

\* lines 145, 149-152 with 76-82: a projector reached on a batched state
ApplyProjectorBatched ==
    /\ Reached /\ EffOp.k = "Projector"
    /\ PostselectRaises(is_state_batched)
    /\ state' = ApplyGate(EffOp, state)
    /\ Raise("ValueError: Cannot postselect on circuits with broadcasting")
    /\ Logged("raised")
    /\ UNCHANGED <<circuit, local, i, is_state_batched, measurement_values, calls>>
    /\ UNCHANGED SimLocals
    /\ UNCHANGED SumVars

\* lines 145, 149-155 with 84-107: a projector on an unbatched state
ApplyProjector ==
    /\ Reached /\ EffOp.k = "Projector"
    /\ ~PostselectRaises(is_state_batched)
    /\ LET projected == ApplyGate(EffOp, state)
       IN  /\ ~(ShotsTruthy(local.c.shots) /\ projected.norm = "nan")
           /\ state' = Renormalize(projected)
           /\ IF ShotsTruthy(local.c.shots)
                 THEN \E p \in PostselectedShots(local.c.shots, projected.norm) : SetShots(p)
                 ELSE SetShots(local.c.shots)
    /\ Logged("applied")
    /\ is_state_batched' = BatchedAfter(is_state_batched, EffOp)
    /\ i' = i + 1
    /\ UNCHANGED <<rng, pc, caller, measurement_values, analytic_meas, mcm_meas,
                   trials, calls, result, err, state_cache, given, first>>
    /\ UNCHANGED SumVars

\* line 97 on a NaN norm: np.random.binomial rejects p = nan
ApplyProjectorNaN ==
    /\ Reached /\ EffOp.k = "Projector"
    /\ ~PostselectRaises(is_state_batched)
    /\ ShotsTruthy(local.c.shots) /\ ApplyGate(EffOp, state).norm = "nan"
    /\ state' = ApplyGate(EffOp, state)
    /\ Raise("ValueError: p is nan")
    /\ Logged("raised")
    /\ UNCHANGED <<circuit, local, i, is_state_batched, measurement_values, calls>>
    /\ UNCHANGED SimLocals
    /\ UNCHANGED SumVars

\* a padding that stacks at most one axis
PadOnce(st, c) ==
    [st EXCEPT !.axes = @ + (IF Cardinality(Wires(c)) > Cardinality(OpWires(c.ops)) THEN 1 ELSE 0)]

\* lines 157-160: one zero-amplitude axis per declared wire no operation acts on
Pad(st, c) == [st EXCEPT !.axes = @ + (Cardinality(Wires(c)) - Cardinality(OpWires(c.ops)))]

\* lines 157-162: pad and return; a direct caller gets the triple, simulate and
\* simulate_native_mcm go on to measure_final_state
GetFinalStateReturn ==
    /\ pc = "loop" /\ i > Len(local.c.ops)
    /\ state' = Pad(state, local.c)
    /\ calls' = [calls EXCEPT !.returned = state']
    /\ IF caller = "top"
          THEN /\ result' = [state |-> state', is_state_batched |-> is_state_batched,
                             measurement_values |-> measurement_values]
               /\ pc' = "done"
          ELSE /\ result' = result
               /\ pc' = "got_final_state"
    /\ UNCHANGED <<circuit, rng, caller, local, i, is_state_batched, measurement_values,
                   log, tmpcirc, analytic_meas, mcm_meas, trials, err, state_cache,
                   given, first>>
    /\ UNCHANGED SumVars

Evolve ==
    \/ GetFinalStateEnter
    \/ ConditionalKeyError
    \/ ConditionalSkip
    \/ ApplyUnitary
    \/ ApplyMidMeasure
    \/ ApplyMidMeasureBatched
    \/ ApplyProjectorBatched
    \/ ApplyProjector
    \/ ApplyProjectorNaN
    \/ GetFinalStateReturn

----------------------------------------------------------------------------
(* get_final_state called on its own *)

NoCalls ==
    [get_final_state |-> 0, measure_final_state |-> 0, simulate_native_mcm |-> 0,
     returned |-> NoneV, measured |-> NoneV]

InitLocals ==
    /\ local = NoneV
    /\ i = 0
    /\ state = NoneV
    /\ is_state_batched = FALSE
    /\ measurement_values = EmptyDict
    /\ log = <<>>
    /\ tmpcirc = NoneV
    /\ analytic_meas = NoneV
    /\ mcm_meas = <<>>
    /\ trials = <<>>
    /\ calls = NoCalls
    /\ result = NoneV
    /\ err = "none"
    /\ first = NoneV

\* no NoiseModel is involved
NoNoise == noise_model = NoneV /\ noise_result = NoneV

\* no LinearCombination and no NoiseModel is involved
NoSum == H = NoneV /\ tapes = NoneV /\ NoNoise

InitEvolve ==
    /\ circuit \in {QuantumScript(ops, ms, shots, std) :
                        ops \in WithPrep(SeqsUpTo(OpCatalogue, MaxOps)),
                        ms \in {<<>>, <<Mp("ExpectationMP", 1)>>,
                               <<Mp("ExpectationMP", 0), Mp("ExpectationMP", 1)>>},
                        shots \in ShotsChoices,
                        std \in BOOLEAN}
    /\ given = circuit
    /\ rng = 0
    /\ state_cache = NoneV
    /\ pc = "get_final_state"
    /\ caller = "top"
    /\ InitLocals
    /\ NoSum

SpecEvolve == InitEvolve /\ [][Evolve]_vars

----------------------------------------------------------------------------
(* Arithmetic and iteration on Python values. *)

NaN == Num(0, 0)

\* a + b on two numbers (fractions n/d; d = 0 is NaN)
AddNum(a, b) ==
    IF a.d = 0 \/ b.d = 0 THEN NaN
    ELSE IF a.d = b.d THEN Num(a.n + b.n, a.d)
    ELSE Num(a.n * b.d + b.n * a.d, a.d * b.d)

\* a + b on numbers and on arrays of one shape
Add(a, b) ==
    IF a.t = "num" THEN AddNum(a, b)
    ELSE Arr([j \in 1..Len(a.v) |-> AddNum(a.v[j], b.v[j])])

\* a / n on a number
DivNum(a, n) == IF a.d = 0 \/ n = 0 THEN NaN ELSE Num(a.n, a.d * n)

\* a / n on numbers and arrays
Div(a, n) ==
    IF a.t = "num" THEN DivNum(a, n)
    ELSE Arr([j \in 1..Len(a.v) |-> DivNum(a.v[j], n)])

\* iter(x) succeeds: tuples, lists and arrays of one or more dimensions
Iterable(x) == x.t \in {"tuple", "list", "arr"}

\* what iterating x yields
Items(x) == x.v

Min(a, b) == IF a < b THEN a ELSE b

----------------------------------------------------------------------------
(* measure and measure_with_samples *)

Count(st, w, v) == Cardinality({b \in st.supp : Bit(b, w) = v})
Wire(mp) == CHOOSE w \in mp.wires : TRUE

\* measure(mp, state): the statistic of one measurement on a state
measure(mp, st) ==
    CASE mp.has_mv -> [t |-> "statistic", kind |-> mp.kind, mv |-> mp.mv, state |-> st]
      [] st.nan /\ mp.kind \in {"ExpectationMP", "PurityMP"} -> NaN
      [] st.nan -> Arr(<<NaN, NaN>>)
      [] mp.kind = "ExpectationMP" ->
            Num(Count(st, Wire(mp), 0) - Count(st, Wire(mp), 1), Cardinality(st.supp))
      [] mp.kind = "PurityMP" -> Num(1, 1)
      [] mp.kind \in {"ProbabilityMP", "StateMP"} ->
            Arr(<<Num(Count(st, Wire(mp), 0), Cardinality(st.supp)),
                  Num(Count(st, Wire(mp), 1), Cardinality(st.supp))>>)
      [] OTHER -> [t |-> "statistic", kind |-> mp.kind, wires |-> mp.wires, state |-> st]

SortedSupp(st) == SelectSeq(<<0, 1, 2, 3>>, LAMBDA b : b \in st.supp)

\* the basis state the generator seeded with `seed` samples at its k-th draw
Draw(seed, k, st) ==
    IF st.supp = {} THEN 0 ELSE SortedSupp(st)[((seed + k) % Cardinality(st.supp)) + 1]

\* the samples of one shot partition: n draws, the first being draw number `from`
Samples(st, n, from, seed) == [k \in 1..n |-> Draw(seed, from + k - 1, st)]

\* the statistic of one measurement on the samples of a partition
SampleStatistic(mp, samples) ==
    [t |-> "sampled", kind |-> mp.kind, wires |-> mp.wires,
     bits |-> IF mp.has_mv \/ mp.wires = {} THEN samples
              ELSE [k \in 1..Len(samples) |-> Bit(samples[k], Wire(mp))]]

\* shots drawn before partition p
Before(shots, p) == SumSeq(SubSeq(shots, 1, p - 1))

\* measure_with_samples: per measurement for one shot count, per partition and
\* per measurement for a shot vector
measure_with_samples(ms, st, shots, seed) ==
    IF has_partitioned_shots(shots)
    THEN Tup([p \in 1..Len(shots) |->
                 Tup([j \in 1..Len(ms) |->
                         SampleStatistic(ms[j], Samples(st, shots[p], Before(shots, p), seed))])])
    ELSE Tup([j \in 1..Len(ms) |-> SampleStatistic(ms[j], Samples(st, shots[1], 0, seed))])

\* a measure_final_state that wraps a single analytic statistic in a tuple
MeasureAlwaysTuple(c, st, seed) ==
    IF ~ShotsTruthy(c.shots)
    THEN Tup([j \in 1..Len(c.measurements) |-> measure(c.measurements[j], st)])
    ELSE LET results == measure_with_samples(c.measurements, st, c.shots, seed)
         IN  IF Len(c.measurements) = 1
             THEN IF has_partitioned_shots(c.shots)
                  THEN Tup([p \in 1..Len(results.v) |-> results.v[p].v[1]])
                  ELSE results.v[1]
             ELSE results

\* a measure_final_state that forgets the shot vector of a single measurement
MeasureFirstOnly(c, st, seed) ==
    IF ~ShotsTruthy(c.shots)
    THEN IF Len(c.measurements) = 1 THEN measure(c.measurements[1], st)
         ELSE Tup([j \in 1..Len(c.measurements) |-> measure(c.measurements[j], st)])
    ELSE LET results == measure_with_samples(c.measurements, st, c.shots, seed)
         IN  IF Len(c.measurements) = 1 THEN results.v[1] ELSE results

\* lines 187-217
measure_final_state(c, st, seed) ==
    IF ~ShotsTruthy(c.shots)
    THEN IF Len(c.measurements) = 1 THEN measure(c.measurements[1], st)
         ELSE Tup([j \in 1..Len(c.measurements) |-> measure(c.measurements[j], st)])
    ELSE LET results == measure_with_samples(c.measurements, st, c.shots, seed)
         IN  IF Len(c.measurements) = 1
             THEN IF has_partitioned_shots(c.shots)
                  THEN Tup([p \in 1..Len(results.v) |-> results.v[p].v[1]])
                  ELSE results.v[1]
             ELSE results

----------------------------------------------------------------------------
(* simulate, simulate_native_mcm, gather_native_mid_circuit_measurements *)

\* lines 318-320
has_mid_circuit_measurements(c) == \E j \in 1..Len(c.ops) : c.ops[j].k = "MidMeasureMP"

\* line 259 and line 304
has_shots(c) == total_shots(c.shots) # NoneV

\* the isinstance test of lines 328 and 337
SampleLike(m) == m.kind \in {"CountsMP", "SampleMP", "VarianceMP"}

RECURSIVE IdxFrom(_, _, _)
IdxFrom(ms, j, sampling) ==
    IF j > Len(ms) THEN <<>>
    ELSE (IF SampleLike(ms[j]) = sampling THEN <<j>> ELSE <<>>) \o IdxFrom(ms, j + 1, sampling)

\* lines 323-329
idx_sampling_measurements(c) == IdxFrom(c.measurements, 1, TRUE)

\* lines 332-338
idx_analytic_measurements(c) == IdxFrom(c.measurements, 1, FALSE)

\* lines 261-265: the copy without shots and without the sample-like measurements
TmpCirc(c) ==
    [c EXCEPT !.shots = <<>>,
              !.measurements = SelectSeq(c.measurements, LAMBDA m : ~SampleLike(m))]

\* a mode test that forgets the shots
RepeatedWheneverMcm(c) == has_mid_circuit_measurements(c)

\* line 260
RepeatedTrialMode(c) == has_mid_circuit_measurements(c) /\ has_shots(c)

\* circuit.hash
Hash(c) == [ops |-> c.ops, measurements |-> c.measurements]

\* lines 258-266: repeated-trial mode
SimulateRepeated ==
    /\ pc = "simulate"
    /\ RepeatedTrialMode(circuit)
    /\ tmpcirc' = TmpCirc(circuit)
    /\ pc' = "simulate_native_mcm"
    /\ UNCHANGED <<circuit, rng, caller, local, i, state, is_state_batched,
                   measurement_values, log, analytic_meas, mcm_meas, trials, calls,
                   result, err, state_cache, given, first>>
    /\ UNCHANGED SumVars

\* lines 258-260, 273: one evolution, one measurement
SimulateOnce ==
    /\ pc = "simulate"
    /\ ~RepeatedTrialMode(circuit)
    /\ caller' = "simulate"
    /\ pc' = "get_final_state"
    /\ UNCHANGED <<circuit, rng, local, i, state, is_state_batched,
                   measurement_values, log, tmpcirc, analytic_meas, mcm_meas, trials,
                   calls, result, err, state_cache, given, first>>
    /\ UNCHANGED SumVars

\* a simulate that never writes the cache
CacheStoreNothing(cache, c, st) == cache

\* lines 274-275: the cache after the write, None staying None
CacheStore(cache, c, st) ==
    IF cache # NoneV THEN [t |-> "dict", v |-> DictSet(cache.v, Hash(c), st)] ELSE cache

\* lines 274-276
SimulateMeasure ==
    /\ pc = "got_final_state" /\ caller = "simulate"
    /\ state_cache' = CacheStore(state_cache, circuit, state)
    /\ calls' = [calls EXCEPT !.measure_final_state = @ + 1, !.measured = state]
    /\ result' = measure_final_state(circuit, state, rng)
    /\ pc' = "done"
    /\ UNCHANGED <<circuit, rng, caller, local, i, state, is_state_batched,
                   measurement_values, log, tmpcirc, analytic_meas, mcm_meas, trials,
                   err, given, first>>
    /\ UNCHANGED SumVars

ErrNativeShots == "ValueError: Invalid circuit.shots.total_shots value"

\* a single-trial primitive that takes any circuit
NativeRefusesNothing(c) == FALSE

\* lines 304-305
NativeRefuses(c) == has_shots(c)

\* lines 304-311: the single-trial primitive refuses a circuit with shots
SimulateNativeMcmEnter ==
    /\ pc = "simulate_native_mcm"
    /\ calls' = [calls EXCEPT !.simulate_native_mcm = @ + 1]
    /\ IF NativeRefuses(NativeInput)
          THEN Raise(ErrNativeShots) /\ caller' = caller
          ELSE /\ caller' = IF tmpcirc # NoneV THEN "native" ELSE "native_top"
               /\ pc' = "get_final_state" /\ err' = err
    /\ UNCHANGED <<circuit, rng, local, i, state, is_state_batched,
                   measurement_values, log, tmpcirc, analytic_meas, mcm_meas, trials,
                   result, state_cache, given, first>>
    /\ UNCHANGED SumVars

\* lines 312-315: the pair (measurement results, outcome dict) of one trial; `per`
\* keeps each measurement's own statistic; a direct caller gets the pair, simulate
\* goes on to take it in
SimulateNativeMcmReturn ==
    /\ pc = "got_final_state" /\ caller \in {"native", "native_top"}
    /\ calls' = [calls EXCEPT !.measure_final_state = @ + 1, !.measured = state]
    /\ trials' = Append(trials,
                    [meas |-> measure_final_state(NativeInput, state, rng),
                     dict |-> measurement_values,
                     per |-> [j \in 1..Len(NativeInput.measurements) |->
                                 measure(NativeInput.measurements[j], state)]])
    /\ IF caller = "native_top"
          THEN /\ result' = Tup(<<measure_final_state(NativeInput, state, rng),
                                  measurement_values>>)
               /\ pc' = "done"
          ELSE /\ result' = result
               /\ pc' = "accumulate"
    /\ UNCHANGED <<circuit, rng, caller, local, i, state, is_state_batched,
                   measurement_values, log, tmpcirc, analytic_meas, mcm_meas,
                   err, state_cache, given, first>>
    /\ UNCHANGED SumVars

\* line 270 on two iterables
ZipAdd(a, b) ==
    Lst([j \in 1..Min(Len(Items(a)), Len(Items(b))) |-> Add(Items(a)[j], Items(b)[j])])

\* a loop that runs one trial too many
TrialsLeftOneMore(c, n) == n <= total_shots(c.shots).n

\* line 268: the trials still to run after n of them
TrialsLeft(c, n) == n < total_shots(c.shots).n

\* lines 266-271: take in the trial that just returned
Accumulate ==
    /\ pc = "accumulate"
    /\ LET tmp == trials[Len(trials)]
       IN  IF mcm_meas = <<>>
           THEN /\ analytic_meas' = tmp.meas
                /\ mcm_meas' = <<tmp.dict>>
                /\ err' = err
                /\ pc' = IF TrialsLeft(circuit, 1) THEN "simulate_native_mcm" ELSE "gather"
           ELSE IF Iterable(analytic_meas) /\ Iterable(tmp.meas)
           THEN /\ analytic_meas' = ZipAdd(analytic_meas, tmp.meas)
                /\ mcm_meas' = Append(mcm_meas, tmp.dict)
                /\ err' = err
                /\ pc' = IF TrialsLeft(circuit, Len(mcm_meas) + 1)
                         THEN "simulate_native_mcm" ELSE "gather"
           ELSE /\ Raise("TypeError: object is not iterable")
                /\ UNCHANGED <<analytic_meas, mcm_meas>>
    /\ UNCHANGED <<circuit, rng, caller, local, i, state, is_state_batched,
                   measurement_values, log, tmpcirc, trials, calls, result,
                   state_cache, given, first>>
    /\ UNCHANGED SumVars

ErrUnsupported == "ValueError: Native mid-circuit measurement mode does not support"

\* counter[sha] after lines 354-356: the sum of the outcomes stored under sha
RECURSIVE CounterAt(_, _)
CounterAt(dicts, sha) ==
    IF dicts = <<>> THEN 0
    ELSE (IF sha \in DOMAIN Head(dicts) THEN Head(dicts)[sha] ELSE 0) + CounterAt(Tail(dicts), sha)

\* the hash lines 359, 362 and 365 read
Sha(m) == m.mv.measurements[1]

\* np.var of a sequence of n bits, `ones` of them 1
Var(n, ones) == IF n = 0 THEN NaN ELSE Num(n * ones - ones * ones, n * n)

\* lines 357-366 for one sample-like measurement
GatherSample(m, dicts) ==
    CASE m.kind = "CountsMP" ->
            [t |-> "dict", zero |-> Len(dicts) - CounterAt(dicts, Sha(m)),
             one |-> CounterAt(dicts, Sha(m))]
      [] m.kind = "SampleMP" -> Arr([k \in 1..Len(dicts) |-> dicts[k][Sha(m)]])
      [] m.kind = "VarianceMP" -> Var(Len(dicts), CounterAt(dicts, Sha(m)))

\* the position of index j in a sequence of indices, 0 if absent
Pos(idx, j) == IF \E p \in 1..Len(idx) : idx[p] = j THEN CHOOSE p \in 1..Len(idx) : idx[p] = j ELSE 0

\* lines 341-371: [raised |-> exception or "none", value |-> normalized_meas]
gather_native_mid_circuit_measurements(c, analytic, dicts) ==
    LET idx_analytic == idx_analytic_measurements(c)
        idx_sample == idx_sampling_measurements(c)
        ms == c.measurements
        n == IF Iterable(analytic) THEN Min(Len(idx_analytic), Len(Items(analytic))) ELSE 0
        unsupported == \E p \in 1..n :
                          ms[idx_analytic[p]].kind \notin {"ExpectationMP", "ProbabilityMP"}
        no_mv == \E p \in 1..Len(idx_sample) : ~ms[idx_sample[p]].has_mv
        missing == \E p \in 1..Len(idx_sample) : \E k \in 1..Len(dicts) :
                      /\ ms[idx_sample[p]].kind \in {"SampleMP", "VarianceMP"}
                      /\ Sha(ms[idx_sample[p]]) \notin DOMAIN dicts[k]
        entry(j) ==
            IF Pos(idx_analytic, j) \in 1..n
            THEN Div(Items(analytic)[Pos(idx_analytic, j)], total_shots(c.shots).n)
            ELSE IF Pos(idx_sample, j) > 0 THEN GatherSample(ms[j], dicts)
            ELSE NoneV
    IN  IF ~Iterable(analytic) THEN [raised |-> "TypeError: object is not iterable"]
        ELSE IF unsupported THEN [raised |-> ErrUnsupported]
        ELSE IF no_mv THEN [raised |-> "AttributeError"]
        ELSE IF missing THEN [raised |-> "KeyError"]
        ELSE [raised |-> "none", value |-> Lst([j \in 1..Len(ms) |-> entry(j)])]

\* line 272
Gather ==
    /\ pc = "gather"
    /\ LET g == gather_native_mid_circuit_measurements(circuit, analytic_meas, mcm_meas)
       IN  IF g.raised = "none"
           THEN result' = g.value /\ pc' = "done" /\ err' = err
           ELSE result' = result /\ Raise(g.raised)
    /\ UNCHANGED <<circuit, rng, caller, local, i, state, is_state_batched,
                   measurement_values, log, tmpcirc, analytic_meas, mcm_meas, trials,
                   calls, state_cache, given, first>>
    /\ UNCHANGED SumVars

Simulate ==
    \/ SimulateRepeated
    \/ SimulateOnce
    \/ SimulateMeasure
    \/ SimulateNativeMcmEnter
    \/ SimulateNativeMcmReturn
    \/ Accumulate
    \/ Gather

MeasurementCatalogue ==
    { Mp("ExpectationMP", 0), Mp("ProbabilityMP", 0), Mp("PurityMP", 0), Mp("StateMP", 0),
      MpMV("CountsMP", MV_m0), MpMV("CountsMP", MV_not_m0),
      MpMV("SampleMP", MV_m0), MpMV("SampleMP", MV_not_m0), MpMV("VarianceMP", MV_m0) }

Init ==
    /\ circuit \in {QuantumScript(ops, ms, shots, std) :
                        ops \in SeqsUpTo(OpCatalogue, MaxSimOps),
                        ms \in SeqsUpTo(MeasurementCatalogue, MaxMeas),
                        shots \in ShotsChoices,
                        std \in BOOLEAN}
    /\ given = circuit
    /\ rng = 0
    /\ state_cache = NoneV
    /\ pc = "simulate"
    /\ caller = "top"
    /\ InitLocals
    /\ NoSum

Next == Evolve \/ Simulate

Spec == Init /\ [][Next]_vars

----------------------------------------------------------------------------
(* simulate called twice with one seed and equal circuits *)

\* the first call is over: keep what it gave and call again on the circuit as given
SimulateAgain ==
    /\ pc \in {"done", "raised"} /\ first = NoneV
    /\ first' = [result |-> result, err |-> err, mcm_meas |-> mcm_meas]
    /\ circuit' = given
    /\ pc' = "simulate"
    /\ caller' = "top"
    /\ local' = NoneV
    /\ i' = 0
    /\ state' = NoneV
    /\ is_state_batched' = FALSE
    /\ measurement_values' = EmptyDict
    /\ log' = <<>>
    /\ tmpcirc' = NoneV
    /\ analytic_meas' = NoneV
    /\ mcm_meas' = <<>>
    /\ trials' = <<>>
    /\ calls' = NoCalls
    /\ result' = NoneV
    /\ err' = "none"
    /\ UNCHANGED <<rng, state_cache, given>>
    /\ UNCHANGED SumVars

InitTwice ==
    /\ circuit \in {QuantumScript(ops, ms, shots, std) :
                        ops \in SeqsUpTo(OpCatalogue, MaxSimOps),
                        ms \in SeqsUpTo(MeasurementCatalogue, MaxMeasTwice),
                        shots \in ShotsChoices,
                        std \in BOOLEAN}
    /\ given = circuit
    /\ rng \in 0..MaxSeed
    /\ state_cache = NoneV
    /\ pc = "simulate"
    /\ caller = "top"
    /\ InitLocals
    /\ NoSum

NextTwice == Evolve \/ Simulate \/ SimulateAgain

SpecTwice == InitTwice /\ [][NextTwice]_vars

----------------------------------------------------------------------------
(* simulate called with a state cache *)

\* a state some earlier call left in the cache
StaleState == [supp |-> {3}, norm |-> "one", nan |-> FALSE, axes |-> 2]

\* the hash of some other circuit
OtherHash == [ops |-> <<PauliX(1)>>, measurements |-> <<Mp("StateMP", 1)>>]

\* the caches the caller may pass: none, an empty dict, a dict holding another
\* circuit's state, a dict holding an older state of this circuit
CacheChoices(c) ==
    {NoneV} \cup {[t |-> "dict", v |-> d] :
                    d \in {EmptyDict, OtherHash :> StaleState, Hash(c) :> StaleState}}

InitCache ==
    /\ circuit \in {QuantumScript(ops, ms, shots, std) :
                        ops \in SeqsUpTo(OpCatalogue, MaxSimOps),
                        ms \in SeqsUpTo(MeasurementCatalogue, MaxMeasCache),
                        shots \in ShotsChoices,
                        std \in BOOLEAN}
    /\ given = circuit
    /\ rng = 0
    /\ state_cache \in CacheChoices(circuit)
    /\ pc = "simulate"
    /\ caller = "top"
    /\ InitLocals
    /\ NoSum

SpecCache == InitCache /\ [][Next]_vars

----------------------------------------------------------------------------
(* simulate_native_mcm called directly, next to simulate *)

\* the circuits have no measurement or one
InitNative ==
    /\ circuit \in {QuantumScript(ops, ms, shots, std) :
                        ops \in SeqsUpTo(OpCatalogue, MaxSimOps),
                        ms \in {<<>>} \cup {<<m>> : m \in MeasurementCatalogue},
                        shots \in ShotsChoices,
                        std \in BOOLEAN}
    /\ given = circuit
    /\ rng = 0
    /\ state_cache = NoneV
    /\ pc \in {"simulate_native_mcm", "simulate"}
    /\ caller = "top"
    /\ InitLocals
    /\ NoSum

SpecNative == InitNative /\ [][Next]_vars

----------------------------------------------------------------------------
(* The observable grouping: terms, relations and the two heuristics. *)

\* a term is a Pauli word over the wires 0 and 1: the operator on each wire
X0 == <<"X", "I">>
Y0 == <<"Y", "I">>
Z1 == <<"I", "Z">>
X1 == <<"I", "X">>
X0Y1 == <<"X", "Y">>
Y0Z1 == <<"Y", "Z">>

TermCatalogue == {X0, Y0, Z1, X1, X0Y1, Y0Z1}

\* the wires a term acts on; position p of a word is wire p - 1
TermWires(a) == {p - 1 : p \in {q \in 1..Len(a) : a[q] # "I"}}

\* the positions where both terms act and apply different operators
Clashes(a, b) == {p \in 1..Len(a) : a[p] # "I" /\ b[p] # "I" /\ a[p] # b[p]}

\* the compatibility relations
Compatible(a, b, relation) ==
    CASE relation = "qwc" -> Clashes(a, b) = {}
      [] relation = "commuting" -> Cardinality(Clashes(a, b)) % 2 = 0
      [] relation = "naive" -> \A p \in 1..Len(a) : a[p] = "I" \/ b[p] = "I"

Relations == {"qwc", "commuting", "naive"}
Heuristics == {"lf", "rlf"}

\* the vertices of `among` a vertex conflicts with: its neighbours in the graph that
\* is coloured
Conflicts(terms, relation, v, among) ==
    {u \in among \ {v} : ~Compatible(terms[u], terms[v], relation)}

\* a vertex of `among` with the most conflicts inside `within`, the lowest index
\* winning ties
Largest(terms, relation, among, within) ==
    CHOOSE v \in among : \A u \in among :
        LET dv == Cardinality(Conflicts(terms, relation, v, within))
            du == Cardinality(Conflicts(terms, relation, u, within))
        IN  dv > du \/ (dv = du /\ v <= u)

\* a group takes v when only its latest member is compared with v
FitsLast(terms, relation, group, v) ==
    group = <<>> \/ Compatible(terms[group[Len(group)]], terms[v], relation)

\* a group takes v when all its members are compatible with v
Fits(terms, relation, group, v) ==
    \A p \in 1..Len(group) : Compatible(terms[group[p]], terms[v], relation)

\* Largest-First: the vertices in decreasing order of degree
RECURSIVE LFOrder(_, _, _)
LFOrder(terms, relation, left) ==
    IF left = {} THEN <<>>
    ELSE LET v == Largest(terms, relation, left, 1..Len(terms))
         IN  <<v>> \o LFOrder(terms, relation, left \ {v})

\* Largest-First: each vertex goes to the first group that takes it, or opens one
RECURSIVE LFAssign(_, _, _, _)
LFAssign(terms, relation, order, groups) ==
    IF order = <<>> THEN groups
    ELSE LET v == Head(order)
             fit == {g \in 1..Len(groups) : Fits(terms, relation, groups[g], v)}
         IN  IF fit = {}
             THEN LFAssign(terms, relation, Tail(order), Append(groups, <<v>>))
             ELSE LET g == CHOOSE x \in fit : \A y \in fit : x <= y
                  IN  LFAssign(terms, relation, Tail(order),
                               [groups EXCEPT ![g] = Append(@, v)])

\* Recursive-Largest-First: grow one group from the pool of unassigned vertices
RECURSIVE RLFGrow(_, _, _, _)
RLFGrow(terms, relation, group, pool) ==
    LET candidates == {v \in pool : Fits(terms, relation, group, v)}
    IN  IF candidates = {} THEN group
        ELSE LET v == Largest(terms, relation, candidates, pool \ candidates)
             IN  RLFGrow(terms, relation, Append(group, v), pool \ {v})

\* Recursive-Largest-First: one group after the other
RECURSIVE RLFGroups(_, _, _)
RLFGroups(terms, relation, unassigned) ==
    IF unassigned = {} THEN <<>>
    ELSE LET v == Largest(terms, relation, unassigned, unassigned)
             group == RLFGrow(terms, relation, <<v>>, unassigned \ {v})
         IN  <<group>> \o RLFGroups(terms, relation,
                                    unassigned \ {group[p] : p \in 1..Len(group)})

\* the groups of term indices (positions 1..Len(terms))
compute_groups(terms, relation, heuristic) ==
    IF heuristic = "lf"
    THEN LFAssign(terms, relation, LFOrder(terms, relation, 1..Len(terms)), <<>>)
    ELSE RLFGroups(terms, relation, 1..Len(terms))

----------------------------------------------------------------------------
(* LinearCombination: construction, grouping, map_wires, and split_non_commuting. *)

\* each index in a group of its own
Singletons(n) == [p \in 1..n |-> <<p>>]

\* the first occurrences of the words of ops, in order
RECURSIVE UniqueFrom(_, _)
UniqueFrom(ops, p) ==
    IF p > Len(ops) THEN <<>>
    ELSE (IF \E q \in 1..(p - 1) : ops[q] = ops[p] THEN <<>> ELSE <<ops[p]>>)
            \o UniqueFrom(ops, p + 1)

\* the sum of the coefficients of the terms equal to word w
RECURSIVE CoeffOf(_, _, _)
CoeffOf(coeffs, ops, w) ==
    IF ops = <<>> THEN 0
    ELSE (IF Head(ops) = w THEN Head(coeffs) ELSE 0) + CoeffOf(Tail(coeffs), Tail(ops), w)

\* _simplify_coeffs_ops through the pauli_rep: one term per word, like terms combined
simplify_coeffs_ops(coeffs, ops) ==
    LET words == UniqueFrom(ops, 1)
    IN  [coeffs |-> [p \in 1..Len(words) |-> CoeffOf(coeffs, ops, words[p])], ops |-> words]

\* the record of one run of the grouping engine
Computed(terms, relation, heuristic) ==
    [terms |-> terms, relation |-> relation, heuristic |-> heuristic,
     groups |-> compute_groups(terms, relation, heuristic)]

\* compute_grouping: group the terms of h and store the indices on h
compute_grouping(h, grouping_type, method) ==
    [h EXCEPT !._grouping_indices = Tup(compute_groups(h._ops, grouping_type, method)),
              !.computed = Computed(h._ops, grouping_type, method)]

\* Sum.__init__ as LinearCombination calls it: the stored indices start as None and,
\* with a grouping_type, the grouping of the terms is computed and stored
SumInit(h, grouping_type, method) ==
    IF grouping_type # "None" THEN compute_grouping(h, grouping_type, method)
    ELSE [h EXCEPT !._grouping_indices = NoneV]

ErrMismatch == "ValueError: number of coefficients and operators does not match"

\* the arguments of a constructor call, nothing constructed yet; `origin` is, on an
\* object map_wires returned, the object it was called on as the call left it
NewLinearCombination(coeffs, observables, simplify, grouping_type, method) ==
    [pc |-> "new", coeffs |-> coeffs, observables |-> observables, simplify |-> simplify,
     grouping_type |-> grouping_type, method |-> method,
     _coeffs |-> NoneV, _ops |-> NoneV, _grouping_indices |-> NoneV,
     computed |-> NoneV, err |-> "none", called |-> 0, origin |-> NoneV]

\* the variables the LinearCombination never writes
SimVars == <<circuit, rng, pc, caller, local, i, state, is_state_batched,
             measurement_values, log, tmpcirc, analytic_meas, mcm_meas,
             trials, calls, result, err, state_cache, given, first,
             noise_model, noise_result>>

\* lines 122-126
LinearCombinationInitMismatch ==
    /\ H.pc = "new"
    /\ Len(H.coeffs) # Len(H.observables)
    /\ H' = [H EXCEPT !.pc = "raised", !.err = ErrMismatch]
    /\ UNCHANGED tapes
    /\ UNCHANGED SimVars

\* lines 128-157
LinearCombinationInit ==
    /\ H.pc = "new"
    /\ Len(H.coeffs) = Len(H.observables)
    /\ LET fields == [H EXCEPT !._coeffs = H.coeffs, !._ops = H.observables,
                               !._grouping_indices = NoneV]
           grouped == SumInit(fields, H.grouping_type, H.method)
           simplified == simplify_coeffs_ops(grouped._coeffs, grouped._ops)
           final == IF H.simplify
                    THEN SumInit([grouped EXCEPT !._coeffs = simplified.coeffs,
                                                 !._ops = simplified.ops],
                                 "None", "rlf")
                    ELSE grouped
       IN  H' = [final EXCEPT !.pc = "constructed"]
    /\ UNCHANGED tapes
    /\ UNCHANGED SimVars

\* compute_grouping called on a constructed object: the stored indices are replaced
ComputeGrouping ==
    /\ H.pc = "constructed" /\ H.called < MaxSumCalls /\ tapes = NoneV
    /\ \E grouping_type \in Relations, method \in Heuristics :
          H' = [compute_grouping(H, grouping_type, method) EXCEPT !.called = @ + 1]
    /\ UNCHANGED tapes
    /\ UNCHANGED SimVars

\* the grouping_indices setter, given a grouping made elsewhere: one group per term
SetGroupingIndices ==
    /\ H.pc = "constructed" /\ H.called < MaxSumCalls /\ tapes = NoneV
    /\ H' = [H EXCEPT !._grouping_indices = Tup(Singletons(Len(H._ops))),
                      !.called = @ + 1]
    /\ UNCHANGED tapes
    /\ UNCHANGED SimVars

\* op.map_wires with the wire map {0: 1, 1: 0}
MapWord(a) == <<a[2], a[1]>>

\* a map_wires that leaves out the assignment of line 505
MapWiresDropsGrouping(h) ==
    [NewLinearCombination(h._coeffs, [p \in 1..Len(h._ops) |-> MapWord(h._ops[p])],
                          FALSE, "None", "rlf")
        EXCEPT !.pc = "constructed",
               !._coeffs = h._coeffs,
               !._ops = [p \in 1..Len(h._ops) |-> MapWord(h._ops[p])],
               !.computed = h.computed,
               !.called = h.called,
               !.origin = h]

\* lines 503-506: a new object on the mapped terms that carries the stored indices
\* over; the object it is called on is only read
map_wires(h) ==
    [NewLinearCombination(h._coeffs, [p \in 1..Len(h._ops) |-> MapWord(h._ops[p])],
                          FALSE, "None", "rlf")
        EXCEPT !.pc = "constructed",
               !._coeffs = h._coeffs,
               !._ops = [p \in 1..Len(h._ops) |-> MapWord(h._ops[p])],
               !._grouping_indices = h._grouping_indices,
               !.computed = h.computed,
               !.called = h.called,
               !.origin = h]

MapWires ==
    /\ H.pc = "constructed" /\ H.called < MaxSumCalls /\ tapes = NoneV
    /\ H' = [map_wires(H) EXCEPT !.called = @ + 1]
    /\ UNCHANGED tapes
    /\ UNCHANGED SimVars

Strategies == {"None", "default", "pauli", "naive"}

\* the groups split_non_commuting works out itself for a strategy: one per term, the
\* qubit-wise commuting groups, or the wire groups filled in the order of the terms
StrategyGroups(terms, strategy) ==
    CASE strategy = "None" -> Singletons(Len(terms))
      [] strategy \in {"default", "pauli"} -> compute_groups(terms, "qwc", "rlf")
      [] strategy = "naive" -> LFAssign(terms, "naive", [p \in 1..Len(terms) |-> p], <<>>)

\* a split that always works the groups out again
GroupsRecomputed(h, strategy) == StrategyGroups(h._ops, strategy)

\* the groups split_non_commuting uses for a tape measuring expval(h): those stored
\* on h when there are any, else those of the strategy
GroupsUsed(h, strategy) ==
    IF h._grouping_indices # NoneV THEN h._grouping_indices.v
    ELSE StrategyGroups(h._ops, strategy)

\* split_non_commuting on a tape whose one measurement is expval(H): one tape per
\* group, measuring the terms of the group
SplitNonCommuting ==
    /\ H.pc = "constructed" /\ tapes = NoneV
    /\ \E strategy \in Strategies :
          LET groups == GroupsUsed(H, strategy)
          IN  tapes' = [grouping_strategy |-> strategy, groups |-> groups,
                        v |-> [g \in 1..Len(groups) |->
                                  [p \in 1..Len(groups[g]) |-> H._ops[groups[g][p]]]]]
    /\ UNCHANGED H
    /\ UNCHANGED SimVars

\* n coefficients
Ones(n) == [p \in 1..n |-> 1]

InitGrouping ==
    /\ H \in {NewLinearCombination(Ones(n), obs, simplify, grouping_type, method) :
                 n \in 1..(MaxTerms + 1),
                 obs \in SeqsUpTo(TermCatalogue, MaxTerms) \ {<<>>},
                 simplify \in BOOLEAN,
                 grouping_type \in {"None"} \cup Relations,
                 method \in Heuristics}
    /\ Len(H.coeffs) \in {Len(H.observables), Len(H.observables) + 1}
    /\ tapes = NoneV
    /\ circuit = NoneV
    /\ given = NoneV
    /\ rng = 0
    /\ state_cache = NoneV
    /\ pc = "idle"
    /\ caller = "top"
    /\ InitLocals
    /\ NoNoise

NextGrouping ==
    \/ LinearCombinationInitMismatch
    \/ LinearCombinationInit
    \/ ComputeGrouping
    \/ SetGroupingIndices
    \/ MapWires
    \/ SplitNonCommuting

SpecGrouping == InitGrouping /\ [][NextGrouping]_vars

----------------------------------------------------------------------------
(* NoiseModel: construction and the operators +, += and -. *)

\* a dict as its items, <<key, value>> pairs in insertion order
PyDict(items) == [t |-> "dict", v |-> items]

\* lines 62-64
NoiseModel(model, metadata) == [t |-> "NoiseModel", _model |-> model, _metadata |-> metadata]

ErrDictAdd == "TypeError: unsupported operand type(s) for +"

\* a + b on two containers: lists concatenate, a dict has no +
PyAdd(a, b) ==
    IF a.t = "list" /\ b.t = "list" THEN [raised |-> "none", value |-> Lst(a.v \o b.v)]
    ELSE [raised |-> ErrDictAdd]

\* lines 76-80: [raised |-> exception or "none", value |-> the new NoiseModel]
__add__(self, data) ==
    IF data.t # "NoiseModel"
    THEN LET model == PyAdd(self._model, data)
         IN  IF model.raised # "none" THEN model
             ELSE [raised |-> "none", value |-> NoiseModel(model.value, self._metadata)]
    ELSE LET model == PyAdd(self._model, data._model)
             metadata == PyAdd(self._metadata, data._metadata)
         IN  IF model.raised # "none" THEN model
             ELSE IF metadata.raised # "none" THEN metadata
             ELSE [raised |-> "none", value |-> NoiseModel(model.value, metadata.value)]

\* k in container: a key of a dict, an element of a list
Contains(container, k) ==
    IF container.t = "dict" THEN \E p \in 1..Len(container.v) : container.v[p][1] = k
    ELSE \E p \in 1..Len(container.v) : container.v[p] = k

\* {k: v for k, v in d.items() if k not in other}
Without(d, other) == PyDict(SelectSeq(d.v, LAMBDA item : ~Contains(other, item[1])))

\* lines 85-94; a model that is no dict has no items()
__sub__(self, data) ==
    IF self._model.t # "dict" THEN [raised |-> "AttributeError"]
    ELSE IF data.t # "NoiseModel"
    THEN [raised |-> "none", value |-> NoiseModel(Without(self._model, data), self._metadata)]
    ELSE [raised |-> "none",
          value |-> NoiseModel(Without(self._model, data._model),
                               Without(self._metadata, data._metadata))]

\* {condition: noisy gate} entries of the docstring example
Entries == {<<"c0", "n0">>, <<"c1", "n1">>, <<"c3", "n3">>}

\* item lists without a repeated key
ItemLists == {s \in SeqsUpTo(Entries, MaxModelEntries) :
                 \A p, q \in 1..Len(s) : p # q => s[p][1] # s[q][1]}

\* the model data a caller may hand over: dicts, and lists of pairs, which the
\* constructor takes as they come
Models == {PyDict(s) : s \in ItemLists} \cup {Lst(s) : s \in ItemLists}

\* keyword arguments: none, or t1=0.04
Metadatas == {PyDict(<<>>), PyDict(<<<<"t1", "0.04">>>>)}

NoiseModels == {NoiseModel(model, metadata) : model \in Models, metadata \in Metadatas}

\* the record of one operator call
Called(op, data, out) == [op |-> op, self |-> noise_model, data |-> data, out |-> out]

\* noise_model + data
NoiseModelAdd ==
    /\ \E data \in Models \cup NoiseModels :
          noise_result' = Called("add", data, __add__(noise_model, data))
    /\ UNCHANGED noise_model
    /\ UNCHANGED <<H, tapes>>
    /\ UNCHANGED <<circuit, rng, pc, caller, local, i, state, is_state_batched,
                   measurement_values, log, tmpcirc, analytic_meas, mcm_meas,
                   trials, calls, result, err, state_cache, given, first>>

\* lines 82-83: data + noise_model, data being no NoiseModel
NoiseModelRadd ==
    /\ \E data \in Models :
          noise_result' = Called("radd", data, __add__(noise_model, data))
    /\ UNCHANGED noise_model
    /\ UNCHANGED <<H, tapes>>
    /\ UNCHANGED <<circuit, rng, pc, caller, local, i, state, is_state_batched,
                   measurement_values, log, tmpcirc, analytic_meas, mcm_meas,
                   trials, calls, result, err, state_cache, given, first>>

\* noise_model += data: the name is bound to what __add__ returns
NoiseModelIAdd ==
    /\ \E data \in Models \cup NoiseModels :
          LET out == __add__(noise_model, data)
          IN  /\ out.raised = "none" => Len(out.value._model.v) <= MaxModelEntries
              /\ noise_result' = Called("iadd", data, out)
              /\ noise_model' = IF out.raised = "none" THEN out.value ELSE noise_model
    /\ UNCHANGED <<H, tapes>>
    /\ UNCHANGED <<circuit, rng, pc, caller, local, i, state, is_state_batched,
                   measurement_values, log, tmpcirc, analytic_meas, mcm_meas,
                   trials, calls, result, err, state_cache, given, first>>

\* noise_model - data
NoiseModelSub ==
    /\ \E data \in Models \cup NoiseModels :
          noise_result' = Called("sub", data, __sub__(noise_model, data))
    /\ UNCHANGED noise_model
    /\ UNCHANGED <<H, tapes>>
    /\ UNCHANGED <<circuit, rng, pc, caller, local, i, state, is_state_batched,
                   measurement_values, log, tmpcirc, analytic_meas, mcm_meas,
                   trials, calls, result, err, state_cache, given, first>>

InitNoise ==
    /\ noise_model \in NoiseModels
    /\ noise_result = NoneV
    /\ H = NoneV
    /\ tapes = NoneV
    /\ circuit = NoneV
    /\ given = NoneV
    /\ rng = 0
    /\ state_cache = NoneV
    /\ pc = "idle"
    /\ caller = "top"
    /\ InitLocals

NextNoise ==
    \/ NoiseModelAdd
    \/ NoiseModelRadd
    \/ NoiseModelIAdd
    \/ NoiseModelSub

SpecNoise == InitNoise /\ [][NextNoise]_vars

----------------------------------------------------------------------------
(* Claims about get_final_state, checked under SpecEvolve. *)

\* the operation an iteration hands to apply_operation
Eff(op) == IF op.k = "Conditional" THEN op.then_op ELSE op

\* all outcomes a MeasurementValue references are realized in d
Realized(mv, d) == Keys(mv) \subseteq DOMAIN d

ErrBroadcastPostselect == "ValueError: Cannot postselect on circuits with broadcasting"

\* C2: for every Conditional whose referenced outcomes are all realized, the wrapped
\* operation is applied exactly when the guard expression evaluates to true on the
\* realized outcomes, and skipped otherwise.
C2_GuardExpressionDecides ==
    \A j \in 1..Len(log) :
        (log[j].op.k = "Conditional" /\ Realized(log[j].op.meas_val, log[j].dict)) =>
            log[j].did = (IF Eval(log[j].op.meas_val, log[j].dict) # 0 THEN "applied" ELSE "skipped")

\* C9: whenever the guard of a Conditional references an outcome that is not realized
\* yet, the run raises KeyError there: the wrapped operation is not applied and no
\* final state is returned.
C9_UnrealizedGuardRaises ==
    \A j \in 1..Len(log) :
        (log[j].op.k = "Conditional" /\ ~Realized(log[j].op.meas_val, log[j].dict)) =>
            /\ log[j].did = "raised"
            /\ j = Len(log) /\ pc = "raised" /\ err = "KeyError" /\ result = NoneV

\* the state preparation or an operation applied before iteration j had a batch dimension
BatchedBefore(j) ==
    \/ HasPrep(given) /\ given.ops[1].batch
    \/ \E k \in 1..(j - 1) : log[k].did = "applied" /\ Eff(log[k].op).batch

\* iteration j reached a projector: a bare one, or one wrapped in a Conditional that
\* was not skipped and did not fail its lookup
ReachedProjector(j) ==
    /\ Eff(log[j].op).k = "Projector"
    /\ log[j].op.k = "Conditional" =>
          GuardKey(log[j].op) \in DOMAIN log[j].dict /\ GuardHolds(log[j].op, log[j].dict)

\* C10: a projector reached after the state preparation or an earlier applied
\* operation had a batch dimension raises the broadcasting ValueError: the run ends
\* there, the state is not renormalized and the shots are those the iteration
\* started with.
C10_BatchedPostselectRaises ==
    \A j \in 1..Len(log) :
        (ReachedProjector(j) /\ BatchedBefore(j)) =>
            /\ log[j].did = "raised" /\ j = Len(log)
            /\ pc = "raised" /\ err = ErrBroadcastPostselect /\ result = NoneV
            /\ state = ApplyGate(Eff(log[j].op), log[j].state)
            /\ local.c.shots = log[j].shots

\* a run with shots where a batched RX precedes a projector that would discard
\* part of the state, ended by the error
C10_Witness ==
    /\ pc = "raised" /\ err = ErrBroadcastPostselect
    /\ Len(log) = 3 /\ log[1].op = RX(0) /\ log[2].op = RXBatched(1)
    /\ log[3].op = Projector(0, 1) /\ state.norm = "part"
    /\ given.shots = <<1, 2>>

ErrMidMeasureBatched == "ValueError: MidMeasureMP cannot be applied to batched states"

\* the running iteration hands a mid-circuit measurement to apply_operation
ReachedMidMeasure == Reached /\ EffOp.k = "MidMeasureMP"

\* C11: a mid-circuit measurement reached after a batched state preparation or an
\* earlier applied batched operation raises an error and leaves no new state and no
\* outcome; reached on an unbatched state it stores an outcome bit in {0, 1} and
\* leaves the state collapsed on that outcome, and the loop goes on.
C11_MidMeasureOnBatchedRaises ==
    [][ReachedMidMeasure =>
          IF BatchedBefore(Len(log) + 1)
          THEN /\ pc' = "raised" /\ err' = ErrMidMeasureBatched
               /\ state' = state /\ measurement_values' = measurement_values
               /\ result' = NoneV
          ELSE /\ pc' = "loop" /\ err' = "none" /\ i' = i + 1
               /\ EffOp.hash \in DOMAIN measurement_values'
               /\ measurement_values'[EffOp.hash] \in {0, 1}
               /\ state' = Collapse(EffOp, state, measurement_values'[EffOp.hash])
               /\ \A k \in DOMAIN measurement_values :
                     k # EffOp.hash => measurement_values'[k] = measurement_values[k]
       ]_vars

\* a first measurement on the unbatched state gave a bit, then a batched RX was
\* applied, and the second measurement was refused
C11_Witness ==
    /\ pc = "raised" /\ err = ErrMidMeasureBatched
    /\ Len(log) = 3 /\ log[1].op = MidMeasureMP(0, 0) /\ log[1].did = "applied"
    /\ log[2].op = RXBatched(1) /\ log[2].did = "applied"
    /\ log[3].op = MidMeasureMP(1, 1) /\ log[3].did = "raised"
    /\ measurement_values[0] \in {0, 1}

\* the wires a circuit declares: those of its operations, the state preparation
\* included, and those of its measurements
Declared(c) ==
    {Eff(c.ops[j]).w : j \in 1..Len(c.ops)}
        \cup UNION {c.measurements[j].wires : j \in 1..Len(c.measurements)}

\* the declared wires no operation acts on
Unoperated(c) == Declared(c) \ {Eff(c.ops[j]).w : j \in 1..Len(c.ops)}

\* C16: when get_final_state returns, the state has one wire axis per declared wire:
\* the axes appended after the last operation are as many as the declared wires no
\* operation acts on (none when every declared wire is operated on), and padding
\* leaves the amplitudes and the other results as they were.
C16_OneAxisPerWire ==
    [][(pc = "loop" /\ pc' = "done") =>
          /\ state'.axes - state.axes = Cardinality(Unoperated(given))
          /\ state'.axes = Cardinality(Declared(given))
          /\ state'.supp = state.supp
          /\ result'.state = state'
          /\ result'.is_state_batched = is_state_batched
          /\ result'.measurement_values = measurement_values
      ]_vars

\* no operation at all and expectation values on two wires: two axes were appended
C16_Witness ==
    /\ pc = "done" /\ given.ops = <<>> /\ Len(given.measurements) = 2
    /\ result.state.axes = 2

\* the running iteration applies, on an unbatched and valid state, a projector onto
\* a subspace the state has no amplitude in
ZeroNormProjector ==
    /\ Reached /\ EffOp.k = "Projector"
    /\ ~BatchedBefore(Len(log) + 1)
    /\ ~state.nan
    /\ \A b \in state.supp : Bit(b, EffOp.w) # EffOp.v

\* C17: a projector that leaves a state of norm zero raises nothing: the norm counts
\* as exactly 0 (every partition keeps 0 shots), the division leaves a NaN-bearing
\* state, and the loop goes on with the next operation.
C17_ZeroNormGivesNaN ==
    [][ZeroNormProjector =>
          /\ pc' = "loop" /\ err' = "none" /\ i' = i + 1
          /\ state'.nan /\ state'.supp = {}
          /\ local'.c.shots = [p \in 1..Len(local.c.shots) |-> 0]
      ]_vars

\* with the shot vector (1, 2), a projector onto |1> on the initial state left NaN
\* and no shots, and the operation after it was applied to the NaN state
C17_Witness ==
    /\ pc = "done" /\ Len(log) = 2 /\ given.shots = <<1, 2>>
    /\ log[1].op = Projector(0, 1) /\ log[1].did = "applied" /\ ~log[1].state.nan
    /\ log[2].op = RX(0) /\ log[2].did = "applied" /\ log[2].state.nan
    /\ local.c.shots = <<0, 0>> /\ result.state.nan

\* the flag the state preparation gives
StartBatched == HasPrep(given) /\ given.ops[1].batch

\* the flag iteration j left: the one the next iteration started from, or the
\* current one
FlagAfter(j) == IF j < Len(log) THEN log[j + 1].batched ELSE is_state_batched

\* the flag starts as the state preparation gives it, never goes back from true to
\* false, and the returned flag is the one the last operation left
FlagFrame ==
    /\ Len(log) > 0 => log[1].batched = StartBatched
    /\ \A j \in 1..Len(log) : log[j].batched => FlagAfter(j)
    /\ pc = "done" =>
          /\ result.is_state_batched = is_state_batched
          /\ Len(log) = 0 => is_state_batched = StartBatched

\* C23 as claimed: the flag starts true only if the state preparation is batched;
\* after every operation, a Conditional applied or skipped included, it is the
\* previous flag OR (the operation has a batch dimension); once true it stays true;
\* the returned flag is the value after the last operation.
C23_FlagOrEveryOperation ==
    /\ FlagFrame
    /\ \A j \in 1..Len(log) :
          log[j].did \in {"applied", "skipped"} =>
             FlagAfter(j) = (log[j].batched \/ Eff(log[j].op).batch)

\* C23, amended: the flag starts true only if the state preparation is batched;
\* after every applied operation (the wrapped operation of a Conditional whose guard
\* held included) it is the previous flag OR (the operation has a batch dimension);
\* a skipped Conditional leaves it as it was; once true it stays true; the returned
\* flag is the value after the last operation.
C23_FlagOrAppliedOperation ==
    /\ FlagFrame
    /\ \A j \in 1..Len(log) :
          /\ log[j].did = "applied" =>
                FlagAfter(j) = (log[j].batched \/ Eff(log[j].op).batch)
          /\ log[j].did = "skipped" => FlagAfter(j) = log[j].batched

\* after a measurement of |0> a Conditional wrapping a batched RX was skipped and
\* the returned flag is false
C23_Witness ==
    /\ pc = "done" /\ Len(log) = 2
    /\ log[1].op = MidMeasureMP(0, 0) /\ log[1].did = "applied"
    /\ log[2].op = Conditional(MV_m0, RXBatched(1)) /\ log[2].did = "skipped"
    /\ ~result.is_state_batched

\* the running iteration hands a projector to apply_operation on an unbatched state
PostselectsUnbatched == Reached /\ EffOp.k = "Projector" /\ ~is_state_batched

\* C24: a post-selecting projector applied to an unbatched state of a circuit with
\* shots leaves a shot specification with as many partitions as before, each count an
\* integer from 0 to the partition's previous count; a count of 0 raises nothing and
\* the loop goes on; a circuit without shots stays without shots.
C24_PostselectedShotsInRange ==
    [][PostselectsUnbatched =>
          IF ShotsTruthy(local.c.shots)
          THEN /\ Len(local'.c.shots) = Len(local.c.shots)
               /\ \A p \in 1..Len(local.c.shots) :
                     local'.c.shots[p] \in 0..local.c.shots[p]
               /\ ~state.nan => (pc' = "loop" /\ err' = "none" /\ i' = i + 1)
          ELSE /\ local'.c.shots = <<>>
               /\ pc' = "loop" /\ err' = "none" /\ i' = i + 1
      ]_vars

\* with the shot vector (1, 2), a projector that keeps part of the state left the
\* first partition without a shot and the second with one of its two
C24_Witness ==
    /\ pc = "done" /\ Len(log) = 2 /\ log[1].op = RX(0)
    /\ log[2].op = Projector(0, 1) /\ log[2].did = "applied"
    /\ log[2].shots = <<1, 2>> /\ local.c.shots = <<0, 1>>

\* the running iteration is at a Conditional whose guard expression, all of whose
\* outcomes are realized, is false
GuardFalse ==
    /\ InLoop /\ CurOp.k = "Conditional"
    /\ Realized(CurOp.meas_val, measurement_values)
    /\ Eval(CurOp.meas_val, measurement_values) = 0

\* C26: when the guard of a Conditional is false, the state, the outcome
\* dictionary and the circuit's shots are after that operation as they were before
\* it, the wrapped operation is not handed to apply_operation (so neither applied
\* nor shown to the debugger), and the loop goes on.
C26_FalseGuardIsNoOp ==
    [][GuardFalse =>
          /\ state' = state
          /\ measurement_values' = measurement_values
          /\ local'.c.shots = local.c.shots /\ circuit' = circuit
          /\ is_state_batched' = is_state_batched
          /\ log'[Len(log')].did = "skipped"
          /\ pc' = "loop" /\ i' = i + 1
      ]_vars

----------------------------------------------------------------------------
(* Claims about simulate, checked under Spec and SpecTwice. *)

Finished == pc \in {"done", "raised"}

\* the call went into repeated-trial mode
Repeated == tmpcirc # NoneV

\* the call failed inside get_final_state
EvolutionFailed == pc = "raised" /\ Len(log) > 0 /\ log[Len(log)].did = "raised"

ContainsMidMeasure(c) == \E j \in 1..Len(c.ops) : c.ops[j].k = "MidMeasureMP"
FiniteShots(c) == c.shots # <<>>
TotalShots(c) == SumSeq(c.shots)
SampleKinds == {"CountsMP", "SampleMP", "VarianceMP"}
AveragedKinds == {"ExpectationMP", "ProbabilityMP"}

\* how many of the first j measurements are not sample-like
AnalyticRank(ms, j) == Cardinality({k \in 1..j : ms[k].kind \notin SampleKinds})

\* the element-wise sum of the statistics the first n trials gave for the p-th
\* measurement they ran
RECURSIVE SumTrials(_, _)
SumTrials(p, n) ==
    IF n = 1 THEN trials[1].per[p] ELSE Add(SumTrials(p, n - 1), trials[n].per[p])

\* the run ended for a reason other than the accumulation and normalization of averages
OtherFailure ==
    \/ EvolutionFailed
    \/ pc = "raised" /\ err \in {ErrUnsupported, "AttributeError", "KeyError"}

\* C1: in repeated-trial mode with N shots the call returns, for each ExpectationMP
\* or ProbabilityMP measurement, the element-wise sum of that measurement's N
\* per-trial statistics divided by N, whatever the number of such measurements.
C1_TrialAverage ==
    (Finished /\ Repeated /\ ~OtherFailure) =>
        /\ pc = "done"
        /\ \A j \in 1..Len(given.measurements) :
              given.measurements[j].kind \in AveragedKinds =>
                 result.v[j] = Div(SumTrials(AnalyticRank(given.measurements, j), TotalShots(given)),
                                   TotalShots(given))

\* every trial realized every outcome the measurement value references
AllRealized(mv) == \A k \in 1..Len(trials) : Realized(mv, trials[k].dict)

\* the number of trials in which the expression evaluated to v
TrialsWhere(mv, v) == Cardinality({k \in 1..Len(trials) : Eval(mv, trials[k].dict) = v})

\* C3: in repeated-trial mode a CountsMP over a measurement-value expression gives
\* {0: n_false, 1: n_true}, the numbers of trials in which the expression was false
\* and true on the trial's outcomes; they add up to N.
C3_CountsOfExpression ==
    (pc = "done" /\ Repeated) =>
        \A j \in 1..Len(given.measurements) :
            LET m == given.measurements[j]
            IN  (m.kind = "CountsMP" /\ m.has_mv /\ AllRealized(m.mv)) =>
                   /\ result.v[j] = [t |-> "dict", zero |-> TrialsWhere(m.mv, 0),
                                      one |-> TrialsWhere(m.mv, 1)]
                   /\ TrialsWhere(m.mv, 0) + TrialsWhere(m.mv, 1) = TotalShots(given)

\* C4: in repeated-trial mode a SampleMP over a measurement-value expression gives
\* an array of N entries, the k-th being the value of the expression in trial k.
C4_SamplesOfExpression ==
    (pc = "done" /\ Repeated) =>
        \A j \in 1..Len(given.measurements) :
            LET m == given.measurements[j]
            IN  (m.kind = "SampleMP" /\ m.has_mv /\ AllRealized(m.mv)) =>
                   result.v[j] = Arr([k \in 1..TotalShots(given) |-> Eval(m.mv, trials[k].dict)])

\* x holds one result per partition of shots; a sample result of a partition of s
\* shots has s entries
PerPartition(x, m, shots) ==
    /\ x.t \in {"tuple", "list"} /\ Len(x.v) = Len(shots)
    /\ m.kind = "SampleMP" =>
          \A p \in 1..Len(shots) : x.v[p].t = "arr" /\ Len(x.v[p].v) = shots[p]

\* the result lists the partitions, each holding one result per measurement (the
\* layout of measure_final_state)
PartitionMajor(x, ms, shots) ==
    /\ x.t \in {"tuple", "list"} /\ Len(x.v) = Len(shots)
    /\ \A p \in 1..Len(shots) :
          IF Len(ms) = 1
          THEN ms[1].kind = "SampleMP" => (x.v[p].t = "arr" /\ Len(x.v[p].v) = shots[p])
          ELSE /\ x.v[p].t \in {"tuple", "list"} /\ Len(x.v[p].v) = Len(ms)
               /\ \A j \in 1..Len(ms) :
                     ms[j].kind = "SampleMP" =>
                        (x.v[p].v[j].t = "arr" /\ Len(x.v[p].v[j].v) = shots[p])

\* C5: for a circuit with mid-circuit measurements and a shot vector the call returns
\* one result per partition for each measurement, and a sample result of a partition
\* of s shots has s entries.
C5_OneResultPerPartition ==
    (pc = "done" /\ ContainsMidMeasure(given) /\ Len(given.shots) > 1
        /\ Len(given.measurements) > 0) =>
        \/ PartitionMajor(result, given.measurements, given.shots)
        \/ /\ result.t \in {"tuple", "list"} /\ Len(result.v) = Len(given.measurements)
           /\ \A j \in 1..Len(given.measurements) :
                 PerPartition(result.v[j], given.measurements[j], given.shots)

\* C6: two calls with one seed on equal circuits end the same way: the same
\* result or the same exception, and in repeated-trial mode the same sequence of
\* per-trial outcomes.
C6_SeedDeterminism ==
    (Finished /\ first # NoneV) =>
        /\ first.err = err
        /\ first.mcm_meas = mcm_meas
        /\ first.result = result

\* C7: the call goes into repeated-trial mode exactly when the circuit holds a
\* mid-circuit measurement and has a finite shot count; otherwise get_final_state runs
\* once, then measure_final_state once, on the state get_final_state returned.
C7_ModeDecision ==
    /\ pc # "simulate" => (Repeated <=> (ContainsMidMeasure(given) /\ FiniteShots(given)))
    /\ ~Repeated =>
          /\ calls.get_final_state <= 1 /\ calls.simulate_native_mcm = 0
          /\ calls.measure_final_state <= calls.get_final_state
          /\ calls.measure_final_state = 1 => (calls.measured = calls.returned /\ pc = "done")
          /\ pc = "done" => (calls.get_final_state = 1 /\ calls.measure_final_state = 1)

\* a circuit with a mid-circuit measurement and no shots, simulated in one pass
C7_Witness ==
    /\ pc = "done" /\ ~Repeated
    /\ ContainsMidMeasure(given) /\ ~FiniteShots(given)
    /\ calls.get_final_state = 1 /\ calls.measure_final_state = 1

SupportedKinds == AveragedKinds \cup SampleKinds
HasUnsupported(c) == \E j \in 1..Len(c.measurements) : c.measurements[j].kind \notin SupportedKinds

\* C8: in repeated-trial mode a circuit with a measurement of an unsupported kind
\* makes the call raise the unsupported-measurement ValueError and return nothing,
\* wherever the measurement stands and whatever N is.
C8_UnsupportedKindRaises ==
    (Finished /\ Repeated /\ HasUnsupported(given) /\ ~EvolutionFailed) =>
        (pc = "raised" /\ err = ErrUnsupported /\ result = NoneV)

\* C22: in repeated-trial mode a measurement of an unsupported kind is rejected
\* before the trial loop: no single-trial simulation is started, and the call ends
\* with the unsupported-measurement ValueError.
C22_UnsupportedRejectedBeforeTrials ==
    (Repeated /\ HasUnsupported(given)) =>
        /\ calls.simulate_native_mcm = 0 /\ calls.get_final_state = 0
        /\ Finished => (pc = "raised" /\ err = ErrUnsupported)

\* the hashes of the mid-circuit measurements the running evolution has applied
AppliedHashes ==
    {Eff(log[j].op).hash :
        j \in {k \in 1..Len(log) : log[k].did = "applied" /\ Eff(log[k].op).k = "MidMeasureMP"}}

\* the running evolution's dictionary holds one bit for each mid-circuit measurement
\* applied so far, and nothing else
OwnOutcomes ==
    /\ DOMAIN measurement_values = AppliedHashes
    /\ \A k \in DOMAIN measurement_values : measurement_values[k] \in {0, 1}

\* the collected dictionaries are those the trials returned, in trial order
CollectedInOrder ==
    /\ Len(mcm_meas) <= Len(trials) /\ Len(trials) <= Len(mcm_meas) + 1
    /\ \A k \in 1..Len(mcm_meas) : mcm_meas[k] = trials[k].dict

\* C25: in repeated-trial mode with N shots in total, a call whose trial loop
\* runs to its end has run exactly N single-trial simulations and collected exactly
\* N outcome dictionaries, one per trial in trial order, and never more than N are
\* started; every trial starts from an empty dictionary, and the dictionary it
\* returns holds one bit, keyed by the hash, for each mid-circuit measurement
\* applied in that trial and nothing from another trial.
C25_OneOwnDictionaryPerTrial ==
    [][/\ Repeated' =>
             /\ calls'.simulate_native_mcm <= TotalShots(given)
             /\ CollectedInOrder'
             /\ pc' \in {"gather", "done"} =>
                    /\ calls'.simulate_native_mcm = TotalShots(given)
                    /\ Len(trials') = TotalShots(given)
                    /\ Len(mcm_meas') = TotalShots(given)
       /\ pc' \in {"loop", "got_final_state"} => OwnOutcomes'
       /\ pc = "get_final_state" => (measurement_values' = EmptyDict /\ log' = <<>>)
       /\ (pc = "got_final_state" /\ caller = "native") =>
             /\ Len(trials') = Len(trials) + 1
             /\ trials'[Len(trials')].dict = measurement_values
             /\ DOMAIN trials'[Len(trials')].dict = AppliedHashes
      ]_vars

\* three trials of [RX(0), MidMeasureMP(0)] with the shot vector (1, 2): three
\* dictionaries were collected, the first holding outcome 1 and the second outcome 0
C25_Witness ==
    /\ pc = "done" /\ Repeated /\ given.shots = <<1, 2>>
    /\ given.ops = <<RX(0), MidMeasureMP(0, 0)>>
    /\ Len(mcm_meas) = 3 /\ calls.simulate_native_mcm = 3
    /\ mcm_meas[1][0] = 1 /\ mcm_meas[2][0] = 0

\* C12: the circuit handed to simulate (and through it to get_final_state) is the
\* same after the call as before: its operations, its measurement list and its shots,
\* also with a post-selecting projector and finite shots and in repeated-trial mode.
C12_CircuitUnchanged ==
    /\ circuit.ops = given.ops
    /\ circuit.measurements = given.measurements
    /\ circuit.shots = given.shots

\* C13 as claimed: with a cache given, a successful call leaves the circuit's hash
\* mapped to the state get_final_state returned, for every circuit, in repeated-trial
\* mode too.
C13_CachePopulatedAlways ==
    (pc = "done" /\ state_cache # NoneV) =>
        /\ Hash(given) \in DOMAIN state_cache.v
        /\ state_cache.v[Hash(given)] = calls.returned

\* C13, amended: the cache changes in one step only, the write of a single-pass call
\* after get_final_state returned, which maps the circuit's hash to the returned state
\* and leaves every other entry as it was; a single-pass call that succeeds with a
\* cache has made that write; a call in repeated-trial mode and a call without a
\* cache never change it.
C13_CachePopulatedSinglePass ==
    [][/\ state_cache' # state_cache =>
             /\ ~Repeated /\ state_cache # NoneV /\ pc' = "done"
             /\ state_cache'.t = "dict"
             /\ DOMAIN state_cache'.v = DOMAIN state_cache.v \cup {Hash(given)}
             /\ state_cache'.v[Hash(given)] = calls.returned
             /\ \A k \in DOMAIN state_cache.v :
                   k # Hash(given) => state_cache'.v[k] = state_cache.v[k]
       /\ (pc # "done" /\ pc' = "done" /\ ~Repeated /\ state_cache # NoneV) =>
             /\ Hash(given) \in DOMAIN state_cache'.v
             /\ state_cache'.v[Hash(given)] = calls.returned
       /\ (Repeated \/ state_cache = NoneV) => state_cache' = state_cache
      ]_vars

\* a single-pass call on a circuit with a mid-circuit measurement and no shots that
\* was given a cache holding another circuit's state and has added its own
C13_Witness ==
    /\ pc = "done" /\ ~Repeated /\ ContainsMidMeasure(given)
    /\ DOMAIN state_cache.v = {OtherHash, Hash(given)}
    /\ state_cache.v[Hash(given)] = calls.returned
    /\ state_cache.v[OtherHash] = StaleState

\* x is what an analytic measure_final_state owes for the measurements ms on state
\* st: the bare statistic of the one measurement, else a tuple of the statistics in
\* the order of ms
AnalyticShape(x, ms, st) ==
    IF Len(ms) = 1
    THEN x = measure(ms[1], st) /\ x.t # "tuple"
    ELSE /\ x.t = "tuple" /\ Len(x.v) = Len(ms)
         /\ \A j \in 1..Len(ms) : x.v[j] = measure(ms[j], st)

\* C14: with shots absent measure_final_state returns the bare statistic when the
\* circuit has exactly one measurement, and otherwise a tuple with one entry per
\* measurement, in the circuit's order (the empty tuple for none); this holds for the
\* call simulate makes and for the call of every trial of repeated-trial mode.
C14_AnalyticResultShape ==
    /\ (pc = "done" /\ ~Repeated /\ circuit.shots = <<>>) =>
          AnalyticShape(result, circuit.measurements, calls.measured)
    /\ \A k \in 1..Len(trials) :
          /\ tmpcirc.shots = <<>>
          /\ IF Len(tmpcirc.measurements) = 1
                THEN trials[k].meas = trials[k].per[1] /\ trials[k].meas.t # "tuple"
                ELSE trials[k].meas = Tup(trials[k].per)

\* a single-pass call without shots on a circuit with one expectation value: the
\* result is the bare number
C14_Witness ==
    /\ pc = "done" /\ ~Repeated /\ circuit.shots = <<>>
    /\ Len(circuit.measurements) = 1 /\ circuit.measurements[1].kind = "ExpectationMP"
    /\ result.t = "num" /\ Len(log) = 2

\* x is the sampled result of measurement m on n shots
SampledOn(x, m, n) == x.t = "sampled" /\ x.kind = m.kind /\ Len(x.bits) = n

\* x holds one sampled result per measurement of ms, each on n shots
PerMeasurement(x, ms, n) ==
    /\ x.t = "tuple" /\ Len(x.v) = Len(ms)
    /\ \A j \in 1..Len(ms) : SampledOn(x.v[j], ms[j], n)

\* C15: with finite shots measure_final_state returns, for exactly one measurement,
\* a tuple of one result per shot partition when the shots are partitioned and the
\* bare result when they are not; for several measurements, one result per
\* measurement, once per partition when the shots are partitioned.
C15_SampledResultShape ==
    (pc = "done" /\ ~Repeated /\ circuit.shots # <<>> /\ Len(circuit.measurements) > 0) =>
        LET ms == circuit.measurements
            shots == circuit.shots
        IN  IF Len(ms) = 1
            THEN IF Len(shots) > 1
                 THEN /\ result.t = "tuple" /\ Len(result.v) = Len(shots)
                      /\ \A p \in 1..Len(shots) : SampledOn(result.v[p], ms[1], shots[p])
                 ELSE SampledOn(result, ms[1], shots[1])
            ELSE IF Len(shots) > 1
                 THEN /\ result.t = "tuple" /\ Len(result.v) = Len(shots)
                      /\ \A p \in 1..Len(shots) : PerMeasurement(result.v[p], ms, shots[p])
                 ELSE PerMeasurement(result, ms, shots[1])

\* one probability measurement sampled with the shot vector (1, 2): two results, of
\* one and of two shots
C15_Witness ==
    /\ pc = "done" /\ ~Repeated /\ circuit.shots = <<1, 2>>
    /\ Len(circuit.measurements) = 1 /\ circuit.measurements[1].kind = "ProbabilityMP"
    /\ result.t = "tuple" /\ Len(result.v) = 2
    /\ Len(result.v[1].bits) = 1 /\ Len(result.v[2].bits) = 2

\* the evolution applied a projector
Postselected == \E j \in 1..Len(log) : log[j].did = "applied" /\ Eff(log[j].op).k = "Projector"

\* the number of samples in the result of measurement j for partition p
DrawnFor(p, j) ==
    LET part == IF Len(given.shots) > 1 THEN result.v[p] ELSE result
    IN  Len((IF Len(given.measurements) = 1 THEN part ELSE part.v[j]).bits)

\* a single-pass call with finite shots, no mid-circuit measurement and an applied
\* projector has returned
PostselectedSampling ==
    /\ pc = "done" /\ ~Repeated /\ FiniteShots(given) /\ ~ContainsMidMeasure(given)
    /\ Postselected

\* C28: when simulate runs a circuit with finite shots, no mid-circuit measurement
\* and a post-selecting projector, the measurement step draws for each partition as
\* many samples as the shot count re-derived during the evolution, whether or not
\* the canonicalization made a new circuit object.
C28_SamplesUsePostselectedShots ==
    PostselectedSampling =>
        \A p \in 1..Len(given.shots) : \A j \in 1..Len(given.measurements) :
            DrawnFor(p, j) = local.c.shots[p]

\* the members of a sequence of indices
Members(idx) == {idx[p] : p \in 1..Len(idx)}

\* a sequence of indices in increasing order
Increasing(idx) == \A p, q \in 1..Len(idx) : p < q => idx[p] < idx[q]

\* C29: a successful call in repeated-trial mode returns one entry per measurement
\* of the given circuit, at the measurement's own index, none unset: the sample-like
\* and the analytic-like indices are disjoint and cover all indices, in increasing
\* order; the accumulated result of the i-th analytic-like measurement, normalized
\* by N, stands at that measurement's index, and each sample-like measurement has
\* the value gathered from the N dictionaries.
C29_OneEntryPerMeasurement ==
    (pc = "done" /\ Repeated) =>
        LET ms == given.measurements
            idx_sample == idx_sampling_measurements(given)
            idx_analytic == idx_analytic_measurements(given)
        IN  /\ result.t = "list" /\ Len(result.v) = Len(ms)
            /\ \A j \in 1..Len(ms) : result.v[j] # NoneV
            /\ Members(idx_sample) \cap Members(idx_analytic) = {}
            /\ Members(idx_sample) \cup Members(idx_analytic) = 1..Len(ms)
            /\ Members(idx_sample) = {j \in 1..Len(ms) : ms[j].kind \in SampleKinds}
            /\ Increasing(idx_sample) /\ Increasing(idx_analytic)
            /\ \A j \in 1..Len(ms) :
                  IF ms[j].kind \in SampleKinds
                  THEN result.v[j] = GatherSample(ms[j], mcm_meas)
                  ELSE result.v[j] = Div(SumTrials(AnalyticRank(ms, j), TotalShots(given)),
                                         TotalShots(given))

----------------------------------------------------------------------------
(* Claims about simulate_native_mcm, checked under SpecNative. *)

\* C27: simulate_native_mcm raises the ValueError when the total shot count of its
\* input circuit is not None, before any evolution or measurement; with shots absent
\* it goes on to the evolution and returns the pair (measurement results, outcome
\* dictionary of that trial); the circuit simulate hands it in repeated-trial mode
\* never has shots.
C27_NativeRefusesShots ==
    [][/\ (pc = "simulate_native_mcm" /\ total_shots(NativeInput.shots) # NoneV) =>
             /\ pc' = "raised" /\ err' = ErrNativeShots /\ result' = NoneV
             /\ state' = state /\ log' = log /\ trials' = trials
             /\ calls'.get_final_state = calls.get_final_state
             /\ calls'.measure_final_state = calls.measure_final_state
       /\ (pc = "simulate_native_mcm" /\ total_shots(NativeInput.shots) = NoneV) =>
             /\ pc' = "get_final_state" /\ err' = "none"
       /\ (pc = "got_final_state" /\ caller = "native_top") =>
             /\ pc' = "done" /\ err' = "none"
             /\ result' = Tup(<<measure_final_state(circuit, state, rng), measurement_values>>)
       /\ (pc = "got_final_state" /\ caller = "native") =>
             /\ trials'[Len(trials')].meas = measure_final_state(tmpcirc, state, rng)
             /\ trials'[Len(trials')].dict = measurement_values
       /\ Repeated' => (tmpcirc'.shots = <<>> /\ err' # ErrNativeShots)
      ]_vars

\* a direct call on a circuit with the shot vector (1, 2) and a mid-circuit
\* measurement: refused before anything ran
C27_Witness ==
    /\ pc = "raised" /\ err = ErrNativeShots /\ ~Repeated
    /\ given.shots = <<1, 2>> /\ ContainsMidMeasure(given)
    /\ calls.simulate_native_mcm = 1 /\ calls.get_final_state = 0 /\ state = NoneV

----------------------------------------------------------------------------
(* Claims about the grouping and the LinearCombination, checked under SpecGrouping. *)

\* the places (group, position) where index x stands in groups
PlacesOf(groups, x) ==
    {<<g, p>> \in (1..Len(groups)) \X (1..MaxTerms + 1) :
        p <= Len(groups[g]) /\ groups[g][p] = x}

\* groups is a partition of the indices 1..n
IsPartition(groups, n) ==
    /\ \A g \in 1..Len(groups) : \A p \in 1..Len(groups[g]) : groups[g][p] \in 1..n
    /\ \A x \in 1..n : Cardinality(PlacesOf(groups, x)) = 1

\* every two terms of a group are compatible under the relation, and under the naive
\* relation they share no wire
GroupsCompatible(groups, terms, relation) ==
    \A g \in 1..Len(groups) : \A p, q \in 1..Len(groups[g]) :
        p < q =>
            /\ Compatible(terms[groups[g][p]], terms[groups[g][q]], relation)
            /\ relation = "naive" =>
                  TermWires(terms[groups[g][p]]) \cap TermWires(terms[groups[g][q]]) = {}

\* C18: every result of the grouping engine, with the Largest-First and with the
\* Recursive-Largest-First heuristic, is a partition of the term indices (each index
\* in exactly one group) whose groups hold pairwise compatible terms under the
\* requested relation; under the naive relation no two terms of a group share a wire.
C18_GroupsArePartition ==
    H.computed # NoneV =>
        /\ IsPartition(H.computed.groups, Len(H.computed.terms))
        /\ GroupsCompatible(H.computed.groups, H.computed.terms, H.computed.relation)

\* Recursive-Largest-First grouped X(0), Z(1), Y(0) by qubit-wise commutation into
\* two groups, Z(1) sharing one with X(0) and not with Y(0) as well
C18_Witness ==
    /\ H.computed # NoneV /\ H.computed.heuristic = "rlf" /\ H.computed.relation = "qwc"
    /\ H.computed.terms = <<X0, Z1, Y0>>
    /\ H.computed.groups = <<<<1, 2>>, <<3>>>>

\* C19: when the LinearCombination carries a grouping, split_non_commuting makes one
\* tape per stored group, each measuring the terms of its group, whatever strategy
\* is requested, and leaves the stored grouping as it is.
C19_ExistingGroupingUsed ==
    [][(tapes = NoneV /\ tapes' # NoneV /\ H._grouping_indices # NoneV) =>
          /\ H' = H
          /\ tapes'.groups = H._grouping_indices.v
          /\ Len(tapes'.v) = Len(H._grouping_indices.v)
          /\ \A g \in 1..Len(tapes'.v) :
                tapes'.v[g] = [p \in 1..Len(H._grouping_indices.v[g]) |->
                                  H._ops[H._grouping_indices.v[g][p]]]
      ]_vars

\* three terms that the pauli strategy would put in one group, split into the three
\* groups the object carried
C19_Witness ==
    /\ tapes # NoneV /\ tapes.grouping_strategy = "pauli"
    /\ Len(H._ops) = 3 /\ H._grouping_indices = Tup(Singletons(3))
    /\ Len(StrategyGroups(H._ops, "pauli")) = 1
    /\ Len(tapes.v) = 3

\* the step is a call of map_wires: H becomes the object the call returned
MapWiresReturns == H.pc = "constructed" /\ H'.origin # H.origin

\* C30: map_wires returns a new LinearCombination with the coefficients of the
\* original, as many terms in the same order (each the mapped term of the original)
\* and the grouping indices of the original, None staying None; the original's
\* coefficients, terms and grouping indices are after the call as before.
C30_MapWiresKeepsGrouping ==
    [][MapWiresReturns =>
          /\ H'.pc = "constructed" /\ H'.err = "none"
          /\ H'._coeffs = H._coeffs
          /\ Len(H'._ops) = Len(H._ops)
          /\ \A p \in 1..Len(H._ops) : H'._ops[p] = MapWord(H._ops[p])
          /\ H'._grouping_indices = H._grouping_indices
          /\ H'.origin._coeffs = H._coeffs
          /\ H'.origin._ops = H._ops
          /\ H'.origin._grouping_indices = H._grouping_indices
      ]_vars

\* X(0) + Z(1) + Y(0), grouped at construction into ((0, 1), (2,)), was mapped: the
\* copy has the swapped wires and the same groups, the original its own terms
C30_Witness ==
    /\ H.origin # NoneV /\ H.origin.called = 0
    /\ H.origin._ops = <<X0, Z1, Y0>> /\ H.origin._grouping_indices = Tup(<<<<1, 2>>, <<3>>>>)
    /\ H._ops = <<X1, <<"Z", "I">>, <<"I", "Y">>>>
    /\ H._grouping_indices = Tup(<<<<1, 2>>, <<3>>>>)

\* C20: a LinearCombination constructed with a grouping_type has, when construction
\* finishes, stored grouping indices that are not None and that partition the
\* indices of its final term list, with simplify=True too.
C20_GroupingStoredAtConstruction ==
    (H.pc = "constructed" /\ H.called = 0 /\ H.grouping_type # "None") =>
        /\ H._grouping_indices # NoneV
        /\ IsPartition(H._grouping_indices.v, Len(H._ops))

----------------------------------------------------------------------------
(* Claims about the NoiseModel, checked under SpecNoise. *)

\* C21: adding a {condition: noisy gate} dict to a NoiseModel built on a dict, by
\* noise_model += dict or by NoiseModel + dict, succeeds and gives a NoiseModel whose
\* model holds the original entries followed by the added ones and whose metadata is
\* that of the original.
C21_AddDictExtendsModel ==
    (/\ noise_result # NoneV
     /\ noise_result.op \in {"add", "iadd"}
     /\ noise_result.self._model.t = "dict"
     /\ noise_result.data.t = "dict") =>
        /\ noise_result.out.raised = "none"
        /\ noise_result.out.value._model =
               PyDict(noise_result.self._model.v \o noise_result.data.v)
        /\ noise_result.out.value._metadata = noise_result.self._metadata

====
